---- MODULE Spec2Model ----
(***************************************************************************)
(* State-machine model of src/inventory_system.py: the Inventory class     *)
(* (stock_data, logs, file), its operations, and the `with` statement of   *)
(* main() that drives __enter__/__exit__.                                  *)
(*                                                                         *)
(* Representation choices:                                                 *)
(*  - a Python str is a sequence of characters, so that str.strip() and    *)
(*    the lexicographic order used by sort_keys/sorted() are computed;     *)
(*  - a Python dict is an association list <<key, value>> in insertion     *)
(*    order (dicts iterate in insertion order);                            *)
(*  - a Python value passed by the caller is a record [type, val];         *)
(*  - a log entry is the fixed text of its message: the timestamp prefix   *)
(*    and the interpolated values are left out;                            *)
(*  - the file is [kind, text]: kind says what open()/json.load() meet,    *)
(*    text is the JSON object as its sequence of "key": value members.     *)
(***************************************************************************)
EXTENDS Integers, Sequences, FiniteSets, TLC

VARIABLES
    file,        \* the content of the path self.file on disk
    alive,       \* whether the caller holds a constructed Inventory
    stock_data,  \* self.stock_data
    logs,        \* self.logs
    scope,       \* position of the caller's `with` block: none/entered/exited
    call         \* the last call made on the ledger: arguments and outcome

vars == <<file, alive, stock_data, logs, scope, call>>

(***************************************************************************)
(* Bounds of the model.                                                    *)
(***************************************************************************)
\* longest log a single instance is driven to
MaxLog == 3
\* largest quantity add_item is driven to
MaxQty == 3

(***************************************************************************)
(* Python values.                                                          *)
(***************************************************************************)
Str(s) == [type |-> "str", val |-> s]
NoneItem == [type |-> "NoneType", val |-> <<>>]
Int_(n) == [type |-> "int", val |-> n]
Bool_(b) == [type |-> "bool", val |-> IF b THEN 1 ELSE 0]
Float_(n) == [type |-> "float", val |-> n]
NoneQty == [type |-> "NoneType", val |-> 0]

\* the item names the callers pass: "", " ", "a", "b", " a" and None
ItemInputs ==
    { Str(<<>>), Str(<<" ">>), Str(<<"a">>), Str(<<"b">>), Str(<<" ", "a">>),
      NoneItem }

\* the quantities the callers pass: -1, 0, 1, 2, True, False, 2.0 and None
QtyInputs ==
    { Int_(0 - 1), Int_(0), Int_(1), Int_(2), Bool_(TRUE), Bool_(FALSE),
      Float_(2), NoneQty }

\* default of check_low_items(threshold)
DefaultThreshold == 5

\* the thresholds the callers pass
ThresholdInputs == { 2, DefaultThreshold }

\* exc_value handed to __exit__: None, or the exception raised in the block
ExcInputs == { "None", "ValueError", "KeyboardInterrupt" }

\* bool(exc_value): exception instances of the built-in classes are truthy
Truthy(exc_value) == exc_value # "None"

(***************************************************************************)
(* str: strip() and the order of str.__lt__ (code points).                 *)
(***************************************************************************)
IsSpace(c) == c = " "

Ord(c) == CASE c = " " -> 32 [] c = "a" -> 97 [] c = "b" -> 98

RECURSIVE lstrip(_)
lstrip(s) == IF s # <<>> /\ IsSpace(Head(s)) THEN lstrip(Tail(s)) ELSE s

RECURSIVE rstrip(_)
rstrip(s) ==
    IF s # <<>> /\ IsSpace(s[Len(s)]) THEN rstrip(SubSeq(s, 1, Len(s) - 1)) ELSE s

strip(s) == rstrip(lstrip(s))

RECURSIVE StrLess(_, _)
StrLess(s, t) ==
    IF t = <<>> THEN FALSE
    ELSE IF s = <<>> THEN TRUE
    ELSE IF Ord(Head(s)) # Ord(Head(t)) THEN Ord(Head(s)) < Ord(Head(t))
    ELSE StrLess(Tail(s), Tail(t))

(***************************************************************************)
(* dict: association list in insertion order.                              *)
(***************************************************************************)
Keys(d) == { d[i][1] : i \in 1..Len(d) }

Contains(d, k) == k \in Keys(d)

Index(d, k) == CHOOSE i \in 1..Len(d) : d[i][1] = k

\* d.get(k, default)
Get(d, k, default) == IF Contains(d, k) THEN d[Index(d, k)][2] ELSE default

\* d[k] = v
SetItem(d, k, v) ==
    IF Contains(d, k) THEN [d EXCEPT ![Index(d, k)] = <<k, v>>]
    ELSE Append(d, <<k, v>>)

\* del d[k]
DelItem(d, k) ==
    LET i == Index(d, k) IN SubSeq(d, 1, i - 1) \o SubSeq(d, i + 1, Len(d))

\* sorted(d.items()): insertion sort on the keys
RECURSIVE Insert(_, _)
Insert(sorted, kv) ==
    IF sorted = <<>> THEN <<kv>>
    ELSE IF StrLess(kv[1], Head(sorted)[1]) THEN <<kv>> \o sorted
    ELSE <<Head(sorted)>> \o Insert(Tail(sorted), kv)

RECURSIVE SortedItems(_)
SortedItems(d) ==
    IF d = <<>> THEN <<>> ELSE Insert(SortedItems(SubSeq(d, 1, Len(d) - 1)), d[Len(d)])

(***************************************************************************)
(* json.dump(..., sort_keys=True) and json.load.                           *)
(***************************************************************************)
\* Dump losing the last member
Dump_drops_last(d) ==
    LET s == SortedItems(d) IN SubSeq(s, 1, Len(s) - 1)

\* the members of the JSON object written, in the order written
Dump(d) == SortedItems(d)

\* the dict built from the members read, in the order read
RECURSIVE Load(_)
Load(text) ==
    IF text = <<>> THEN <<>>
    ELSE LET kv == text[Len(text)]
         IN SetItem(Load(SubSeq(text, 1, Len(text) - 1)), kv[1], kv[2])

Absent == [kind |-> "absent", text |-> <<>>]
\* exists, opens, and is not JSON (also a file cut short by a failed write)
BadJson == [kind |-> "badjson", text |-> <<>>]
\* exists, opens, and holds bytes that are not UTF-8
BadUtf8 == [kind |-> "badutf8", text |-> <<>>]
\* exists and open() raises OSError (a directory, no permission)
Unreadable == [kind |-> "unreadable", text |-> <<>>]
Json(text) == [kind |-> "json", text |-> text]

\* a file written by another program in the format of the ledger: the members
\* need not be in key order
External == Json(<< <<<<"b">>, 1>>, <<<<"a">>, 2>> >>)

InitFiles == { Absent, BadJson, BadUtf8, Unreadable, External }

(***************************************************************************)
(* What a call leaves behind for its caller.                               *)
(***************************************************************************)
RetNone == [type |-> "NoneType", n |-> 0, l |-> <<>>]
RetInt(n) == [type |-> "int", n |-> n, l |-> <<>>]
RetList(l) == [type |-> "list", n |-> 0, l |-> l]
RetSelf == [type |-> "Inventory", n |-> 0, l |-> <<>>]

NoItem == [type |-> "absent", val |-> <<>>]
NoQty == [type |-> "absent", val |-> 0]

\* a line written by print()
Line(text) == [text |-> text, item |-> <<>>, qty |-> 0]
ReportLine(kv) == [text |-> "{item}: {qty}", item |-> kv[1], qty |-> kv[2]]
Echo(msgs) == [i \in 1..Len(msgs) |-> Line(msgs[i])]

Call(op, item, qty, exc_value, ret, raised, out) ==
    [op |-> op, item |-> item, qty |-> qty, exc_value |-> exc_value,
     ret |-> ret, raised |-> raised, out |-> out]

(***************************************************************************)
(* Validation.  A validator yields its result and the entries it logged.   *)
(***************************************************************************)
validate_item(item) ==
    IF item.type # "str" \/ strip(item.val) = <<>>
    THEN [ok |-> FALSE, msgs |-> <<"Invalid item name">>]
    ELSE [ok |-> TRUE, msgs |-> <<>>]

\* isinstance(qty, int): bool is a subclass of int
IsInt(qty) == qty.type \in {"int", "bool"}

\* validate_qty with the test written qty < 0
validate_qty_accepts_zero(qty) ==
    IF ~IsInt(qty) \/ qty.val < 0
    THEN [ok |-> FALSE, msgs |-> <<"Invalid quantity">>]
    ELSE [ok |-> TRUE, msgs |-> <<>>]

validate_qty(qty) ==
    IF ~IsInt(qty) \/ qty.val <= 0
    THEN [ok |-> FALSE, msgs |-> <<"Invalid quantity">>]
    ELSE [ok |-> TRUE, msgs |-> <<>>]

\* validate_both with both validators always run
validate_both_eager(item, qty) ==
    LET vi == validate_item(item)
        vq == validate_qty(qty)
    IN [ok |-> vi.ok /\ vq.ok, msgs |-> vi.msgs \o vq.msgs]

\* self._validate_item(item) and self._validate_qty(qty)
validate_both(item, qty) ==
    LET vi == validate_item(item)
        vq == validate_qty(qty)
    IN IF ~vi.ok THEN vi ELSE [ok |-> vq.ok, msgs |-> vi.msgs \o vq.msgs]

(***************************************************************************)
(* The bodies of the operations, as functions of the state they read.      *)
(***************************************************************************)
\* add_stock with the new amount stored instead of the total
add_stock_overwrites(d, k, n) ==
    [stock |-> SetItem(d, k, n), msgs |-> <<"Added">>]

\* add_item after validation
add_stock(d, k, n) ==
    LET total == Get(d, k, 0) + n
    IN [stock |-> SetItem(d, k, total), msgs |-> <<"Added">>]

\* remove_stock with the test written left < 0
remove_stock_keeps_zero(d, k, n) ==
    IF ~Contains(d, k)
    THEN [stock |-> d, msgs |-> <<"not found in inventory">>]
    ELSE LET left == Get(d, k, 0) - n
         IN IF left < 0
            THEN [stock |-> DelItem(d, k),
                  msgs |-> <<"removed from inventory (out of stock)">>]
            ELSE [stock |-> SetItem(d, k, left), msgs |-> <<"Removed">>]

\* remove_stock refusing to remove more than there is
remove_stock_rejects_excess(d, k, n) ==
    IF ~Contains(d, k)
    THEN [stock |-> d, msgs |-> <<"not found in inventory">>]
    ELSE LET left == Get(d, k, 0) - n
         IN IF left < 0
            THEN [stock |-> d, msgs |-> <<"Invalid quantity">>]
            ELSE IF left = 0
            THEN [stock |-> DelItem(d, k),
                  msgs |-> <<"removed from inventory (out of stock)">>]
            ELSE [stock |-> SetItem(d, k, left), msgs |-> <<"Removed">>]

\* remove_stock without the membership test, a missing key counting as 0
remove_stock_no_lookup(d, k, n) ==
    LET left == Get(d, k, 0) - n
    IN IF Contains(d, k) /\ left <= 0
       THEN [stock |-> DelItem(d, k),
             msgs |-> <<"removed from inventory (out of stock)">>]
       ELSE [stock |-> SetItem(d, k, left), msgs |-> <<"Removed">>]

\* remove_item after validation
remove_stock(d, k, n) ==
    IF ~Contains(d, k)
    THEN [stock |-> d, msgs |-> <<"not found in inventory">>]
    ELSE LET left == Get(d, k, 0) - n
         IN IF left <= 0
            THEN [stock |-> DelItem(d, k),
                  msgs |-> <<"removed from inventory (out of stock)">>]
            ELSE [stock |-> SetItem(d, k, left), msgs |-> <<"Removed">>]

\* low_items with the test written qty <= threshold
low_items_inclusive(d, threshold) ==
    LET Low(kv) == kv[2] <= threshold
        sel == SelectSeq(d, Low)
    IN [i \in 1..Len(sel) |-> sel[i][1]]

\* [item for item, qty in self.stock_data.items() if qty < threshold]
low_items(d, threshold) ==
    LET Low(kv) == kv[2] < threshold
        sel == SelectSeq(d, Low)
    IN [i \in 1..Len(sel) |-> sel[i][1]]

check_low(d, threshold) ==
    LET low == low_items(d, threshold)
    IN [ret |-> low,
        msgs |-> IF low # <<>> THEN <<"Low stock items">>
                 ELSE <<"No low-stock items detected.">>]

\* the lines of print_data
report(d) ==
    <<Line("--- Inventory Report ---")>>
    \o (IF d = <<>> THEN <<Line("No items in stock.")>>
        ELSE LET s == SortedItems(d) IN [i \in 1..Len(s) |-> ReportLine(s[i])])

\* what the operating system does to a write: nothing goes wrong, open()
\* raises OSError, or the write raises OSError after open() truncated the file
IoOutcomes == { "ok", "open_fails", "write_fails" }

save(f, d, io) ==
    CASE io = "ok" -> [file |-> Json(Dump(d)), msgs |-> <<"Inventory saved">>]
      [] io = "open_fails" -> [file |-> f, msgs |-> <<"Error saving inventory">>]
      [] io = "write_fails" -> [file |-> BadJson, msgs |-> <<"Error saving inventory">>]

load(f, d) ==
    CASE f.kind = "absent" ->
            [stock |-> d, msgs |-> <<"No inventory file found. Starting fresh.">>,
             raised |-> "None"]
      [] f.kind = "json" ->
            [stock |-> Load(f.text), msgs |-> <<"Loaded inventory">>, raised |-> "None"]
      [] f.kind \in {"badjson", "unreadable"} ->
            [stock |-> d, msgs |-> <<"Error loading file">>, raised |-> "None"]
      [] f.kind = "badutf8" ->
            [stock |-> d, msgs |-> <<>>, raised |-> "UnicodeDecodeError"]

\* the entries __exit__ logs after its save_data
exit_msgs(exc_value) ==
    IF Truthy(exc_value) THEN <<"Error occurred">> ELSE <<>>

(***************************************************************************)
(* The state machine.                                                      *)
(***************************************************************************)
Init ==
    /\ file \in InitFiles
    /\ alive = FALSE
    /\ stock_data = <<>>
    /\ logs = <<>>
    /\ scope = "none"
    /\ call = Call("none", NoItem, NoQty, "None", RetNone, "None", <<>>)

\* Inventory(file): fresh fields, then load_data; an error raised by
\* load_data leaves the caller without an instance.  The model follows one
\* instance at a time: the next one is constructed outside the `with` block
init ==
    LET r == load(file, <<>>)
    IN /\ scope # "entered"
       /\ stock_data' = r.stock
       /\ logs' = r.msgs
       /\ alive' = (r.raised = "None")
       /\ scope' = "none"
       /\ call' = Call("__init__", NoItem, NoQty, "None", RetNone, r.raised, Echo(r.msgs))
       /\ UNCHANGED file

add_item(item, qty) ==
    /\ alive
    /\ LET v == validate_both(item, qty)
           r == IF v.ok THEN add_stock(stock_data, item.val, qty.val)
                ELSE [stock |-> stock_data, msgs |-> v.msgs]
       IN /\ Len(logs) + Len(r.msgs) <= MaxLog
          /\ v.ok => Get(stock_data, item.val, 0) + qty.val <= MaxQty
          /\ stock_data' = r.stock
          /\ logs' = logs \o r.msgs
          /\ call' = Call("add_item", item, qty, "None", RetNone, "None", Echo(r.msgs))
    /\ UNCHANGED <<file, alive, scope>>

remove_item(item, qty) ==
    /\ alive
    /\ LET v == validate_both(item, qty)
           r == IF v.ok THEN remove_stock(stock_data, item.val, qty.val)
                ELSE [stock |-> stock_data, msgs |-> v.msgs]
       IN /\ Len(logs) + Len(r.msgs) <= MaxLog
          /\ stock_data' = r.stock
          /\ logs' = logs \o r.msgs
          /\ call' = Call("remove_item", item, qty, "None", RetNone, "None", Echo(r.msgs))
    /\ UNCHANGED <<file, alive, scope>>

get_qty(item) ==
    /\ alive
    /\ LET n == IF item.type = "str" THEN Get(stock_data, item.val, 0) ELSE 0
       IN call' = Call("get_qty", item, NoQty, "None", RetInt(n), "None", <<>>)
    /\ UNCHANGED <<file, alive, stock_data, logs, scope>>

check_low_items(threshold) ==
    /\ alive
    /\ LET r == check_low(stock_data, threshold)
       IN /\ Len(logs) + Len(r.msgs) <= MaxLog
          /\ logs' = logs \o r.msgs
          /\ call' = Call("check_low_items", NoItem, Int_(threshold), "None",
                          RetList(r.ret), "None", Echo(r.msgs))
    /\ UNCHANGED <<file, alive, stock_data, scope>>

print_data ==
    /\ alive
    /\ call' = Call("print_data", NoItem, NoQty, "None", RetNone, "None",
                    report(stock_data))
    /\ UNCHANGED <<file, alive, stock_data, logs, scope>>

save_data(io) ==
    /\ alive
    /\ LET r == save(file, stock_data, io)
       IN /\ Len(logs) + Len(r.msgs) <= MaxLog
          /\ file' = r.file
          /\ logs' = logs \o r.msgs
          /\ call' = Call("save_data", NoItem, NoQty, "None", RetNone, "None",
                          Echo(r.msgs))
    /\ UNCHANGED <<alive, stock_data, scope>>

load_data ==
    /\ alive
    /\ LET r == load(file, stock_data)
       IN /\ Len(logs) + Len(r.msgs) <= MaxLog
          /\ stock_data' = r.stock
          /\ logs' = logs \o r.msgs
          /\ call' = Call("load_data", NoItem, NoQty, "None", RetNone, r.raised,
                          Echo(r.msgs))
    /\ UNCHANGED <<file, alive, scope>>

\* `with Inventory() as inv:` enters the block
enter ==
    /\ alive
    /\ scope # "entered"
    /\ scope' = "entered"
    /\ call' = Call("__enter__", NoItem, NoQty, "None", RetSelf, "None", <<>>)
    /\ UNCHANGED <<file, alive, stock_data, logs>>

\* exit saving only when the block ended normally
exit_saves_on_success_only(exc_value, io) ==
    /\ alive
    /\ scope = "entered"
    /\ LET r == IF Truthy(exc_value) THEN [file |-> file, msgs |-> <<>>]
                ELSE save(file, stock_data, io)
           msgs == r.msgs \o exit_msgs(exc_value)
       IN /\ Len(logs) + Len(msgs) <= MaxLog
          /\ file' = r.file
          /\ logs' = logs \o msgs
          /\ call' = Call("__exit__", NoItem, NoQty, exc_value, RetNone,
                          exc_value, Echo(msgs))
    /\ scope' = "exited"
    /\ UNCHANGED <<alive, stock_data>>

\* the block ends, normally (exc_value is None) or by an exception: __exit__
\* runs, and the `with` statement re-raises the exception unless __exit__
\* returned a true value
exit(exc_value, io) ==
    /\ alive
    /\ scope = "entered"
    /\ LET r == save(file, stock_data, io)
           msgs == r.msgs \o exit_msgs(exc_value)
           ret == RetNone
           suppressed == ret.type # "NoneType"
       IN /\ Len(logs) + Len(msgs) <= MaxLog
          /\ file' = r.file
          /\ logs' = logs \o msgs
          /\ call' = Call("__exit__", NoItem, NoQty, exc_value, ret,
                          IF suppressed THEN "None" ELSE exc_value, Echo(msgs))
    /\ scope' = "exited"
    /\ UNCHANGED <<alive, stock_data>>

(***************************************************************************)
(* The ledger in memory: construction on a path that holds no file or a    *)
(* well-formed one, then any calls of the stock operations.                *)
(***************************************************************************)
InitLedger == Init /\ file \in {Absent, External}

NextLedger ==
    \/ init
    \/ \E item \in ItemInputs, qty \in QtyInputs : add_item(item, qty)
    \/ \E item \in ItemInputs, qty \in QtyInputs : remove_item(item, qty)
    \/ \E item \in ItemInputs : get_qty(item)
    \/ \E threshold \in ThresholdInputs : check_low_items(threshold)
    \/ print_data

SpecLedger == InitLedger /\ [][NextLedger]_vars

(***************************************************************************)
(* The ledger and its file: construction on any path, valid changes of the *)
(* stock, save_data/load_data and the `with` block.                        *)
(***************************************************************************)
StoreItems == { Str(<<"a">>), Str(<<"b">>) }
StoreQtys == { Int_(1), Int_(2) }

NextStore ==
    \/ init
    \/ \E item \in StoreItems, qty \in StoreQtys : add_item(item, qty)
    \/ \E item \in StoreItems, qty \in StoreQtys : remove_item(item, qty)
    \/ \E io \in IoOutcomes : save_data(io)
    \/ load_data
    \/ enter
    \/ \E exc_value \in ExcInputs, io \in IoOutcomes : exit(exc_value, io)

SpecStore == Init /\ [][NextStore]_vars

(***************************************************************************)
(* The properties.  They speak of the caller's arguments in the words of   *)
(* the specification, not through the validators of the code.              *)
(***************************************************************************)
\* the item name is a string that is empty once its whitespace is trimmed
EmptyAfterTrim(item) ==
    item.type = "str" /\ \A i \in 1..Len(item.val) : item.val[i] = " "

GoodName(item) ==
    item.type = "str" /\ \E i \in 1..Len(item.val) : item.val[i] # " "

\* the quantity is zero, negative, or not an integer
BadQty(qty) == qty.type \notin {"int", "bool"} \/ qty.val <= 0

GoodQty(qty) == qty.type \in {"int", "bool"} /\ qty.val > 0

\* the quantity the ledger answers for a name
Quantity(d, k) == IF \E i \in 1..Len(d) : d[i][1] = k
                  THEN (d[CHOOSE i \in 1..Len(d) : d[i][1] = k])[2]
                  ELSE 0

Last(s) == s[Len(s)]

Mutation(c) == c.op \in {"add_item", "remove_item"}

ValidCall(c) == GoodName(c.item) /\ GoodQty(c.qty)

\* C1: in every state reached from construction by add_item and remove_item
\* calls with any arguments, every key of the stock maps to a strictly
\* positive quantity.
C1_StockPositive ==
    \A i \in 1..Len(stock_data) : stock_data[i][2] > 0

\* a removal that left a smaller, positive quantity behind, next to another item
C1_Witness ==
    /\ call.op = "remove_item"
    /\ Last(logs) = "Removed"
    /\ Len(stock_data) = 2

\* C2: an add_item or remove_item call whose name is empty after trimming, or
\* whose quantity is zero, negative or not an integer, leaves the stock as it
\* was, raises nothing, and is recorded by one log entry.
C2_InvalidIsNoOp ==
    [][ (Mutation(call') /\ (EmptyAfterTrim(call'.item) \/ BadQty(call'.qty)))
        => /\ stock_data' = stock_data
           /\ call'.raised = "None"
           /\ Len(logs') = Len(logs) + 1
           /\ Last(logs') \in {"Invalid item name", "Invalid quantity"} ]_vars

\* a rejected add of quantity 0 to a ledger that holds stock
C2_Witness ==
    /\ call.op = "add_item"
    /\ GoodName(call.item)
    /\ call.qty = Int_(0)
    /\ stock_data # <<>>
    /\ Last(logs) = "Invalid quantity"

\* C3: a valid add_item(item, qty) makes the quantity of item its previous
\* quantity (0 when absent) plus qty, which get_qty then returns, and leaves
\* every other item as it was.
C3_AddAccumulates ==
    [][ (call'.op = "add_item" /\ ValidCall(call'))
        => /\ Keys(stock_data') = Keys(stock_data) \cup {call'.item.val}
           /\ \A k \in Keys(stock_data') :
                Quantity(stock_data', k) =
                    Quantity(stock_data, k) + (IF k = call'.item.val THEN call'.qty.val ELSE 0)
           /\ call'.raised = "None" ]_vars

\* a second add to an item, next to another item
C3_Witness ==
    /\ call.op = "add_item"
    /\ ValidCall(call)
    /\ Quantity(stock_data, call.item.val) > call.qty.val
    /\ Len(stock_data) = 2

\* C4: a valid remove_item(item, qty) on an item held with quantity q leaves
\* q - qty when qty < q and deletes the key when qty >= q, so that the
\* quantity answered is 0 and the item is not among the members save_data
\* writes; every other item is as it was and nothing is raised.
C4_RemoveOrDelete ==
    [][ (call'.op = "remove_item" /\ ValidCall(call')
            /\ Contains(stock_data, call'.item.val))
        => LET k == call'.item.val
               q == Quantity(stock_data, k)
               n == call'.qty.val
           IN /\ n < q => Quantity(stock_data', k) = q - n
              /\ n >= q => /\ k \notin Keys(stock_data')
                           /\ Quantity(stock_data', k) = 0
                           /\ \A i \in 1..Len(Dump(stock_data')) :
                                Dump(stock_data')[i][1] # k
              /\ Keys(stock_data') \ {k} = Keys(stock_data) \ {k}
              /\ \A o \in Keys(stock_data) \ {k} :
                    Quantity(stock_data', o) = Quantity(stock_data, o)
              /\ call'.raised = "None" ]_vars

\* a removal of 2 that emptied an item, another item staying
C4_Witness ==
    /\ call.op = "remove_item"
    /\ call.qty = Int_(2)
    /\ Last(logs) = "removed from inventory (out of stock)"
    /\ stock_data # <<>>

\* C5: a valid remove_item for an item that is not in the stock changes
\* nothing in the stock, raises nothing, leaves the quantity answered at 0 and
\* adds only the 'not found' log entry.
C5_RemoveAbsent ==
    [][ (call'.op = "remove_item" /\ ValidCall(call')
            /\ ~Contains(stock_data, call'.item.val))
        => /\ stock_data' = stock_data
           /\ call'.raised = "None"
           /\ Quantity(stock_data', call'.item.val) = 0
           /\ logs' = Append(logs, "not found in inventory") ]_vars

\* a removal of an absent item from a ledger that holds another one
C5_Witness ==
    /\ call.op = "remove_item"
    /\ ValidCall(call)
    /\ Last(logs) = "not found in inventory"
    /\ stock_data # <<>>

\* C9: check_low_items(threshold) returns exactly the items whose quantity is
\* strictly below threshold, each once, and does not change the stock.
C9_LowItemsExact ==
    [][ call'.op = "check_low_items"
        => LET low == call'.ret.l
           IN /\ { low[i] : i \in 1..Len(low) } =
                    { k \in Keys(stock_data) : Quantity(stock_data, k) < call'.qty.val }
              /\ Cardinality({ low[i] : i \in 1..Len(low) }) = Len(low)
              /\ stock_data' = stock_data ]_vars

\* a check that returned an item while another item sat exactly at the threshold
C9_Witness ==
    /\ call.op = "check_low_items"
    /\ call.ret.l # <<>>
    /\ \E k \in Keys(stock_data) : Quantity(stock_data, k) = call.qty.val

\* C10: every add_item or remove_item call, accepted or rejected, appends
\* exactly one entry to the log and leaves the earlier entries as they were;
\* get_qty appends none.
C10_OneEntryPerMutation ==
    [][ /\ Mutation(call') => /\ Len(logs') = Len(logs) + 1
                              /\ SubSeq(logs', 1, Len(logs)) = logs
        /\ call'.op = "get_qty" => logs' = logs ]_vars

\* a call rejected with both its name and its quantity invalid
C10_Witness ==
    /\ Mutation(call)
    /\ EmptyAfterTrim(call.item)
    /\ BadQty(call.qty)
    /\ Len(logs) >= 2

\* C6: a successful save_data followed by the construction of a fresh ledger
\* on the same path gives a stock equal to the saved one, key for key and
\* value for value, with no key more and no key less.
C6_RoundTrip ==
    [][ (call.op = "save_data" /\ Last(logs) = "Inventory saved"
            /\ call'.op = "__init__")
        => /\ call'.raised = "None"
           /\ alive'
           /\ Keys(stock_data') = Keys(stock_data)
           /\ \A k \in Keys(stock_data) :
                Quantity(stock_data', k) = Quantity(stock_data, k) ]_vars

\* a fresh ledger that loaded two items from a file save_data wrote: the file
\* differs from the one found at the start
C6_Witness ==
    /\ call.op = "__init__"
    /\ file.kind = "json"
    /\ file # External
    /\ Len(stock_data) = 2
    /\ logs = <<"Loaded inventory">>

\* C7: when the file exists and cannot be read or decoded, load_data (called
\* directly or by the constructor) leaves the stock as it was before the
\* call, appends an error entry to the log, and raises nothing.
C7_LoadFailureAbsorbed ==
    [][ (call'.op \in {"load_data", "__init__"}
            /\ file.kind \in {"badjson", "badutf8", "unreadable"})
        => /\ stock_data' = (IF call'.op = "__init__" THEN <<>> ELSE stock_data)
           /\ logs' = (IF call'.op = "__init__" THEN <<>> ELSE logs)
                        \o <<"Error loading file">>
           /\ call'.raised = "None" ]_vars

\* C8: the `with` block is left only through __exit__, which runs save_data
\* exactly once (one save entry is logged) whether or not the block raised;
\* when it raised, the error is logged after the save entry and still
\* propagates to the caller.
C8_FlushOnExit ==
    [][ /\ (scope = "entered" /\ scope' # "entered") => call'.op = "__exit__"
        /\ call'.op = "__exit__"
            => /\ \E s \in {"Inventory saved", "Error saving inventory"} :
                    logs' = logs \o <<s>>
                            \o (IF call'.exc_value # "None" THEN <<"Error occurred">>
                                ELSE <<>>)
               /\ Last(logs') = "Inventory saved" => file' = Json(Dump(stock_data))
               /\ call'.raised = call'.exc_value
               /\ stock_data' = stock_data ]_vars

\* a block that held stock and ended by an exception
C8_Witness ==
    /\ call.op = "__exit__"
    /\ call.exc_value = "ValueError"
    /\ call.raised = "ValueError"
    /\ stock_data # <<>>
    /\ Last(logs) = "Error occurred"

====
